---- MODULE Spec2Model ----
(***************************************************************************)
(* Model of the scrolling text log of nocturnal-cartographer               *)
(* (src/models/logger.rs): the message history `text`, the scroll position *)
(* `offset`, and the operations push, incr_offset, decr_offset, text,      *)
(* mesh and set_box_position; and of its host (src/main.rs): the           *)
(* construction of the log and the draw, update and key_down_event         *)
(* callbacks of Cartographer.                                              *)
(***************************************************************************)
EXTENDS Integers, Sequences, FiniteSets, TLC

\* text, offset, text_params, mesh: the fields of Log.
\* call, ret: the last call made on the Log (name and arguments) and the
\*            value it returned (<<>> for unit).
\* pre:       the value of offset when that call started.
\* panicked:  the process has aborted in a panic.
\* pushed:    the arguments of all push calls so far, in call order.
VARIABLES text, offset, text_params, mesh, call, ret, pre, panicked, pushed

\* counter, palette: the fields of Cartographer (its log is the Log above).
\* built:    whether Log::new has run: "none", "ok" or "err".
\* event:    the last callback the event loop made, with its input.
\* canvas:   what the last draw put on the canvas (<<>> before any draw).
\* quit:     the event loop has been asked to end.
VARIABLES counter, palette, built, event, canvas, quit

logVars == <<text, offset, text_params, mesh, call, ret, pre, panicked, pushed>>

hostVars == <<counter, palette, built, event, canvas, quit>>

vars == <<text, offset, text_params, mesh, call, ret, pre, panicked, pushed,
          counter, palette, built, event, canvas, quit>>

\* ------------------------------------------------------------------ bounds
\* Longest history explored; push is disabled beyond it.
MaxLen == 7

\* Strings handed to push.
Msgs == {"a", "b"}

\* Drawable heights reported by the graphics context.
ScreenHeights == {720, 600}

\* (width, height) offsets handed to set_box_position.
BoxOffsets == {<<50, 50>>, <<0, 10>>}

\* Palettes colors::Palette::random can return.
Palettes == {[bg |-> "bg1", fg |-> "fg1"], [bg |-> "bg2", fg |-> "fg2"]}

\* Key codes of a key_down_event; "Z" stands for every key without a
\* binding and "None" for an input without a key code.
KeyCodes == {"S", "W", "A", "N", "C", "Z", "None"}

\* --------------------------------------------------------------- constants
WIDTH == 400
HEIGHT == 88
PAGE == 5
TEXT_HEIGHT == 16
THIN_LINE == 1
BORDER == 50
FONT == "JetBrains Mono"
\* usize::MAX, the value a wrapping `0 - 1` produces in a build without
\* overflow checks (kept inside TLC's integer range).
USIZE_MAX == 2147483647

\* ----------------------------------------------------------------- helpers
Min(a, b) == IF a < b THEN a ELSE b

\* usize::saturating_sub
saturating_sub(a, b) == IF a >= b THEN a - b ELSE 0

\* `x -= 1` on a usize: exact when x > 0; on 0 it panics when overflow
\* checks are compiled in and wraps to usize::MAX when they are not.
sub_assign_one(x) ==
    IF x > 0 THEN {[val |-> x - 1, panic |-> FALSE]}
    ELSE {[val |-> x, panic |-> TRUE], [val |-> USIZE_MAX, panic |-> FALSE]}

\* TextFragment::from(&s).font(..).scale(..).color(..)
Fragment(s, params) ==
    [text |-> s, font |-> params.font, scale |-> params.line_height,
     color |-> params.color]

\* text.add('\n').set_scale(params.height())
Newline(params) ==
    [text |-> "\n", font |-> "default", scale |-> params.line_height,
     color |-> "default"]

\* The panic raised by an out-of-range `self.text[i]`.
OutOfBounds == [text |-> "index out of bounds", font |-> "panic",
                scale |-> 0, color |-> "panic"]

\* `&self.text[i]` with a 0-based i.
Index(v, i, params) ==
    IF i >= 0 /\ i < Len(v) THEN Fragment(v[i + 1], params) ELSE OutOfBounds

\* The loop of Log::text without `.rev()`: oldest message first.
RECURSIVE text_loop_forward(_, _, _, _, _)
text_loop_forward(v, start, end, params, acc) ==
    IF start >= end THEN acc
    ELSE LET f == Index(v, start, params) IN
         IF f = OutOfBounds THEN Append(acc, f)
         ELSE text_loop_forward(v, start + 1, end, params,
                                acc \o <<f, Newline(params)>>)

\* for i in (start..end).rev() { text.add(fragment i); text.add('\n') }
\* The loop stops at the first out-of-range index.
RECURSIVE text_loop(_, _, _, _, _)
text_loop(v, start, end, params, acc) ==
    IF start >= end THEN acc
    ELSE LET f == Index(v, end - 1, params) IN
         IF f = OutOfBounds THEN Append(acc, f)
         ELSE text_loop(v, start, end - 1, params,
                        acc \o <<f, Newline(params)>>)

\* Log::text iterating the inclusive range start..=end.
text_of_inclusive(v, off, params) ==
    LET vec_len == Len(v)
        end == Min(Min(off, vec_len), vec_len)
        start == IF vec_len > PAGE THEN saturating_sub(end, PAGE) ELSE 0
    IN text_loop(v, start, end + 1, params, <<>>)

\* Log::text with a page one line short.
text_of_short(v, off, params) ==
    LET vec_len == Len(v)
        end == Min(Min(off, vec_len), vec_len)
        start == IF vec_len > PAGE THEN saturating_sub(end, PAGE - 1) ELSE 0
    IN text_loop(v, start, end, params, <<>>)

\* Log::text as a function of the fields it reads.
text_of(v, off, params) ==
    LET vec_len == Len(v)
        end == Min(Min(off, vec_len), vec_len)
        start == IF vec_len > PAGE THEN saturating_sub(end, PAGE) ELSE 0
    IN text_loop(v, start, end, params, <<>>)

\* The lines a Text displays: the fragments' strings, cut at each '\n'.
RECURSIVE lines_from(_, _, _)
lines_from(frags, cur, started) ==
    IF frags = <<>> THEN (IF started THEN <<cur>> ELSE <<>>)
    ELSE IF Head(frags).text = "\n"
         THEN <<cur>> \o lines_from(Tail(frags), "", FALSE)
         ELSE lines_from(Tail(frags), cur \o Head(frags).text, TRUE)

Lines(frags) == lines_from(frags, "", FALSE)

\* ------------------------------------------------------------------- state
\* TextParams::new
TextParamsNew(color, line_height, font, stroke_width) ==
    [color |-> color, line_height |-> line_height, font |-> font,
     stroke_width |-> stroke_width]

\* The mesh Log::new builds: the stroked outline of a WIDTH x HEIGHT
\* rectangle.
BoxMesh(params) ==
    [w |-> WIDTH, h |-> HEIGHT, stroke |-> params.stroke_width,
     color |-> params.color]

\* Cartographer::new after a successful Log::new.
Init ==
    /\ palette \in Palettes
    /\ text = <<>>
    /\ offset = 0
    /\ text_params = TextParamsNew(palette.fg, TEXT_HEIGHT, FONT, THIN_LINE)
    /\ mesh = BoxMesh(text_params)
    /\ call = <<"new">>
    /\ ret = <<>>
    /\ pre = 0
    /\ panicked = FALSE
    /\ pushed = <<>>
    /\ counter = 0
    /\ built = "ok"
    /\ event = <<"new">>
    /\ canvas = <<>>
    /\ quit = FALSE

\* Log::push taking the length before the append.
PushStaleLen(s) ==
    /\ ~panicked
    /\ Len(text) < MaxLen
    /\ text' = Append(text, s)
    /\ offset' = Len(text)
    /\ pushed' = Append(pushed, s)
    /\ call' = <<"push", s>>
    /\ ret' = <<>>
    /\ pre' = offset
    /\ UNCHANGED <<text_params, mesh, panicked>>

\* Log::push inserting at the front of the history.
PushFront(s) ==
    /\ ~panicked
    /\ Len(text) < MaxLen
    /\ text' = <<s>> \o text
    /\ offset' = Len(text')
    /\ pushed' = Append(pushed, s)
    /\ call' = <<"push", s>>
    /\ ret' = <<>>
    /\ pre' = offset
    /\ UNCHANGED <<text_params, mesh, panicked>>

\* Log::push
Push(s) ==
    /\ ~panicked
    /\ Len(text) < MaxLen
    /\ text' = Append(text, s)
    /\ offset' = Len(text')
    /\ pushed' = Append(pushed, s)
    /\ call' = <<"push", s>>
    /\ ret' = <<>>
    /\ pre' = offset
    /\ UNCHANGED <<text_params, mesh, panicked>>

\* Log::incr_offset with the bound check `offset + 1 < len`.
incr_offset_strict(off, len) ==
    IF off + 1 < len THEN off + 1 ELSE off

\* Log::incr_offset with the bound check `offset <= len`.
incr_offset_inclusive(off, len) ==
    IF off <= len THEN off + 1 ELSE off

\* Log::incr_offset without its bound check.
incr_offset_unguarded(off, len) == off + 1

\* The body of Log::incr_offset: the new offset.
incr_offset(off, len) ==
    IF off < len THEN off + 1 ELSE off

\* Log::incr_offset
IncrOffset ==
    /\ ~panicked
    /\ offset' = incr_offset(offset, Len(text))
    /\ call' = <<"incr_offset">>
    /\ ret' = <<>>
    /\ pre' = offset
    /\ UNCHANGED <<text, text_params, mesh, panicked, pushed>>

\* Log::decr_offset stopping one position early on a long history.
decr_offset_floor_six(off, len) ==
    IF (len > PAGE /\ off = PAGE + 1) \/ (len <= PAGE /\ off <= PAGE)
    THEN {[val |-> off, panic |-> FALSE]}
    ELSE IF off > 0 THEN sub_assign_one(off)
         ELSE {[val |-> off, panic |-> FALSE]}

\* Log::decr_offset with only the `offset > 0` check.
decr_offset_no_floor(off, len) ==
    IF off > 0 THEN sub_assign_one(off)
    ELSE {[val |-> off, panic |-> FALSE]}

\* Log::decr_offset that lets a history of at most one page scroll down
\* to 0.
decr_offset_floor_zero(off, len) ==
    IF (len > PAGE /\ off = PAGE) \/ (len <= PAGE /\ off <= 0)
    THEN {[val |-> off, panic |-> FALSE]}
    ELSE IF off > 0 THEN sub_assign_one(off)
         ELSE {[val |-> off, panic |-> FALSE]}

\* The body of Log::decr_offset: the possible outcomes, each the new
\* offset and whether the subtraction panicked.
decr_offset(off, len) ==
    IF (len > PAGE /\ off = PAGE) \/ (len <= PAGE /\ off <= PAGE)
    THEN {[val |-> off, panic |-> FALSE]}
    ELSE IF off > 0 THEN sub_assign_one(off)
         ELSE {[val |-> off, panic |-> FALSE]}

\* Log::decr_offset
DecrOffset ==
    /\ ~panicked
    /\ \E r \in decr_offset(offset, Len(text)) :
          /\ offset' = r.val
          /\ panicked' = r.panic
    /\ call' = <<"decr_offset">>
    /\ ret' = <<>>
    /\ pre' = offset
    /\ UNCHANGED <<text, text_params, mesh, pushed>>

\* Log::text using its mutable receiver to store the newest position.
TextSnapsOffset ==
    /\ ~panicked
    /\ LET t == text_of(text, offset, text_params) IN
       /\ panicked' = (\E k \in 1..Len(t) : t[k] = OutOfBounds)
       /\ ret' = t
    /\ offset' = Len(text)
    /\ call' = <<"text">>
    /\ pre' = offset
    /\ UNCHANGED <<text, text_params, mesh, pushed>>

\* Log::text
Text ==
    /\ ~panicked
    /\ LET t == text_of(text, offset, text_params) IN
       /\ panicked' = (\E k \in 1..Len(t) : t[k] = OutOfBounds)
       /\ ret' = t
    /\ call' = <<"text">>
    /\ pre' = offset
    /\ UNCHANGED <<text, offset, text_params, mesh, pushed>>

\* Log::mesh
Mesh ==
    /\ ~panicked
    /\ ret' = mesh
    /\ call' = <<"mesh">>
    /\ pre' = offset
    /\ UNCHANGED <<text, offset, text_params, mesh, panicked, pushed>>

\* Log::set_box_position measuring the vertical offset from the top edge.
SetBoxPositionFromTop(screen_height, box_offset) ==
    /\ ~panicked
    /\ LET width == box_offset[1]
           height == box_offset[2]
       IN ret' = <<width, height>>
    /\ call' = <<"set_box_position", screen_height, box_offset>>
    /\ pre' = offset
    /\ UNCHANGED <<text, offset, text_params, mesh, panicked, pushed>>

\* Log::set_box_position, on a context whose drawable height is
\* screen_height.
SetBoxPosition(screen_height, box_offset) ==
    /\ ~panicked
    /\ LET width == box_offset[1]
           height == screen_height - mesh.h - box_offset[2]
       IN ret' = <<width, height>>
    /\ call' = <<"set_box_position", screen_height, box_offset>>
    /\ pre' = offset
    /\ UNCHANGED <<text, offset, text_params, mesh, panicked, pushed>>

\* Any caller of the Log: the calls in any order, with any arguments.
Next ==
    \/ \E s \in Msgs : Push(s) /\ UNCHANGED hostVars
    \/ IncrOffset /\ UNCHANGED hostVars
    \/ DecrOffset /\ UNCHANGED hostVars
    \/ Text /\ UNCHANGED hostVars
    \/ Mesh /\ UNCHANGED hostVars
    \/ \E h \in ScreenHeights, o \in BoxOffsets :
          SetBoxPosition(h, o) /\ UNCHANGED hostVars

Spec == Init /\ [][Next]_vars

\* ------------------------------------------------------- construction
\* The value of a Log field while no Log exists.
NoLog == "no Log"

\* The state in Cartographer::new just before it calls Log::new.
InitNew ==
    /\ palette \in Palettes
    /\ text = NoLog
    /\ offset = NoLog
    /\ text_params = NoLog
    /\ mesh = NoLog
    /\ call = <<"start">>
    /\ ret = <<>>
    /\ pre = 0
    /\ panicked = FALSE
    /\ pushed = <<>>
    /\ counter = 0
    /\ built = "none"
    /\ event = <<"start">>
    /\ canvas = <<>>
    /\ quit = FALSE

\* Log::new discarding the error of builder.rectangle.
NewDropsError(params, rect_ok) ==
    /\ built = "none"
    /\ call' = <<"new", params, rect_ok>>
    /\ text' = <<>>
    /\ offset' = 0
    /\ text_params' = params
    /\ mesh' = BoxMesh(params)
    /\ built' = "ok"
    /\ ret' = "Ok"
    /\ event' = <<"new">>
    /\ UNCHANGED <<pre, panicked, pushed, counter, palette, canvas, quit>>

\* Log::new(params, ctx); rect_ok tells whether builder.rectangle
\* succeeds. On failure `?` returns the error before any Log is made, and
\* Cartographer::new and main return it in turn.
New(params, rect_ok) ==
    /\ built = "none"
    /\ call' = <<"new", params, rect_ok>>
    /\ IF rect_ok
       THEN /\ text' = <<>>
            /\ offset' = 0
            /\ text_params' = params
            /\ mesh' = BoxMesh(params)
            /\ built' = "ok"
            /\ ret' = "Ok"
            /\ event' = <<"new">>
       ELSE /\ built' = "err"
            /\ ret' = "Err"
            /\ event' = <<"exit">>
            /\ UNCHANGED <<text, offset, text_params, mesh>>
    /\ UNCHANGED <<pre, panicked, pushed, counter, palette, canvas, quit>>

\* Construction, then any use of the Log that was built.
NextNew ==
    \/ \E rect_ok \in BOOLEAN :
          New(TextParamsNew(palette.fg, TEXT_HEIGHT, FONT, THIN_LINE), rect_ok)
    \/ built = "ok" /\ Next

SpecNew == InitNew /\ [][NextNew]_vars

\* ---------------------------------------------------------------- host
\* Display of a u32: its decimal digits.
RECURSIVE to_string(_)
to_string(n) ==
    LET digit(d) == <<"0", "1", "2", "3", "4", "5", "6", "7", "8", "9">>[d + 1]
    IN IF n < 10 THEN digit(n) ELSE to_string(n \div 10) \o digit(n % 10)

\* format!("Pushed String No: {}", n)
format_pushed(n) == "Pushed String No: " \o to_string(n)

\* Log::color_mut(ctx, color); ok tells whether the drawable is rebuilt.
ColorMut(color, ok) ==
    /\ call' = <<"color_mut", color>>
    /\ pre' = offset
    /\ IF ok
       THEN /\ text_params' = [text_params EXCEPT !.color = color]
            /\ mesh' = [mesh EXCEPT !.color = color]
            /\ ret' = "Ok"
       ELSE /\ UNCHANGED <<text_params, mesh>>
            /\ ret' = "Err"
    /\ UNCHANGED <<text, offset, panicked, pushed>>

\* KeyCode::S
KeyS ==
    /\ DecrOffset
    /\ UNCHANGED <<counter, palette, quit>>

\* KeyCode::W
KeyW ==
    /\ IncrOffset
    /\ UNCHANGED <<counter, palette, quit>>

\* KeyCode::A numbering the message with the counter before the push.
KeyAStaleNumber ==
    /\ Push(format_pushed(counter))
    /\ counter' = counter + 1
    /\ UNCHANGED <<palette, quit>>

\* KeyCode::A
KeyA ==
    /\ Push(format_pushed(counter + 1))
    /\ counter' = counter + 1
    /\ UNCHANGED <<palette, quit>>

\* KeyCode::N; an error of color_mut is returned to the event loop, which
\* ends the run.
KeyN ==
    \E p \in Palettes, ok \in BOOLEAN :
       /\ palette' = p
       /\ ColorMut(p.fg, ok)
       /\ quit' = (IF ok THEN quit ELSE TRUE)
       /\ UNCHANGED counter

\* KeyCode::C
KeyC(ctrl) ==
    /\ quit' = (IF ctrl THEN TRUE ELSE quit)
    /\ UNCHANGED <<logVars, counter, palette>>

\* Cartographer::key_down_event
KeyDown(keycode, ctrl) ==
    /\ ~quit
    /\ ~panicked
    /\ event' = <<"key_down_event", keycode, ctrl>>
    /\ UNCHANGED <<built, canvas>>
    /\ CASE keycode = "S" -> KeyS
         [] keycode = "W" -> KeyW
         [] keycode = "A" -> KeyA
         [] keycode = "N" -> KeyN
         [] keycode = "C" -> KeyC(ctrl)
         [] OTHER -> UNCHANGED <<logVars, counter, palette, quit>>

\* Cartographer::draw on a surface of height screen_height: the three
\* reads of the log, in the order the code makes them.
Draw(screen_height) ==
    /\ ~quit
    /\ ~panicked
    /\ LET box_offset == <<BORDER, screen_height - mesh.h - BORDER>>
           text_offset == <<box_offset[1] + 5, box_offset[2] + 2>>
           log_text == text_of(text, offset, text_params)
           log_box == mesh
       IN /\ panicked' = (\E k \in 1..Len(log_text) : log_text[k] = OutOfBounds)
          /\ canvas' = [clear |-> palette.bg,
                        text |-> log_text, text_dest |-> text_offset,
                        box |-> log_box, box_dest |-> box_offset]
          /\ ret' = log_box
    /\ call' = <<"mesh">>
    /\ pre' = offset
    /\ event' = <<"draw", screen_height>>
    /\ UNCHANGED <<text, offset, text_params, mesh, pushed,
                   counter, palette, built, quit>>

\* Cartographer::update: only the window title is set.
Update ==
    /\ ~quit
    /\ ~panicked
    /\ event' = <<"update">>
    /\ UNCHANGED <<logVars, counter, palette, built, canvas, quit>>

\* The event loop: callbacks in any order.
NextHost ==
    \/ \E k \in KeyCodes, ctrl \in BOOLEAN : KeyDown(k, ctrl)
    \/ \E h \in ScreenHeights : Draw(h)
    \/ Update

SpecHost == Init /\ [][NextHost]_vars

\* ------------------------------------------------------------------ claims

\* C1: in every reachable state the scroll position lies inside the
\* history: 0 <= offset <= len(messages).
C1_OffsetInRange ==
    /\ offset \in Nat
    /\ 0 <= offset
    /\ offset <= Len(text)

\* incr_offset was called at the newest position of a history longer than
\* one page, and the offset stayed at the length.
C1_Witness ==
    /\ call[1] = "incr_offset"
    /\ Len(text) > 5
    /\ pre = Len(text)
    /\ offset = Len(text)

\* C2: every push(m), whatever the scroll position it starts from, appends m
\* as the last message and leaves offset equal to the new length.
C2_PushSnapsOffset ==
    [][call'[1] = "push" =>
          /\ Len(text') = Len(text) + 1
          /\ text'[Len(text')] = call'[2]
          /\ offset' = Len(text')]_vars

\* A push made while the log was scrolled back from the newest message.
C2_Witness ==
    /\ call[1] = "push"
    /\ pre < Len(text) - 1
    /\ offset = Len(text)

\* C3: right after push(m) the top line of text() is m: it is what text()
\* would render in the state push leaves, and what a text() call made as the
\* next operation returns.
C3_PushShowsNewest ==
    /\ [](call[1] = "push" =>
            /\ Lines(text_of(text, offset, text_params)) # <<>>
            /\ Head(Lines(text_of(text, offset, text_params))) = call[2])
    /\ [][(call[1] = "push" /\ call'[1] = "text") =>
            /\ Lines(ret') # <<>>
            /\ Head(Lines(ret')) = call[2]]_vars

\* A push from a scrolled-back position of a history longer than one page,
\* whose message differs from the one that was on top before.
C3_Witness ==
    /\ call[1] = "push"
    /\ Len(text) > 6
    /\ pre = 5
    /\ text[5] # call[2]
    /\ Head(Lines(text_of(text, offset, text_params))) = call[2]

\* C4: the history is append-only: it is always exactly the sequence of
\* pushed messages in call order (so its length is the number of pushes),
\* a push only appends its argument, and no other call changes it.
C4_AppendOnly ==
    /\ [](text = pushed /\ Len(text) = Len(pushed))
    /\ [][IF call'[1] = "push"
          THEN text' = Append(text, call'[2])
          ELSE text' = text]_vars

\* A history of two different messages, scrolled after the pushes.
C4_Witness ==
    /\ Len(text) > 5
    /\ text[1] # text[2]
    /\ call[1] = "decr_offset"
    /\ offset < pre
    /\ text = pushed

\* C5: text() renders exactly the messages with indices in [start, end),
\* end = min(offset, n), start = end - 5 if n > 5 else 0, newest first, and
\* never more than 5 lines; a..g at offset 7 give g,f,e,d,c and a,b at
\* offset 2 give b,a.
C5_TextWindow ==
    LET n == Len(text)
        end == IF offset < n THEN offset ELSE n
        start == IF n > 5 THEN end - 5 ELSE 0
        ls == Lines(text_of(text, offset, text_params))
    IN /\ Len(ls) = end - start
       /\ Len(ls) <= 5
       /\ \A k \in 1..Len(ls) : ls[k] = text[end - k + 1]
       /\ (call[1] = "text" => Lines(ret) = ls)
       /\ Lines(text_of(<<"a", "b", "c", "d", "e", "f", "g">>, 7, text_params))
             = <<"g", "f", "e", "d", "c">>
       /\ Lines(text_of(<<"a", "b">>, 2, text_params)) = <<"b", "a">>

\* text() was called on seven messages at offset 7 and returned the five
\* newest, newest first.
C5_Witness ==
    /\ call[1] = "text"
    /\ Len(text) = 7
    /\ offset = 7
    /\ text[7] # text[3]
    /\ Lines(ret) = <<text[7], text[6], text[5], text[4], text[3]>>

\* C6: incr_offset adds exactly 1 to offset when offset < len(messages) and
\* changes nothing when offset = len(messages); it never raises offset
\* above the length and never changes the messages.
C6_IncrOffset ==
    [][call'[1] = "incr_offset" =>
          /\ (offset < Len(text) => offset' = offset + 1)
          /\ (offset = Len(text) => offset' = offset)
          /\ offset' <= Len(text')
          /\ text' = text]_vars

\* An incr_offset that moved the offset up by one.
C6_Witness ==
    /\ call[1] = "incr_offset"
    /\ offset = pre + 1
    /\ offset <= Len(text)

C10_Total ==
    /\ [](/\ ~panicked
          /\ ENABLED IncrOffset
          /\ ENABLED DecrOffset
          /\ ENABLED Text
          /\ (Len(text) < MaxLen => \A s \in Msgs : ENABLED Push(s))
          /\ \A k \in 1..Len(text_of(text, offset, text_params)) :
                text_of(text, offset, text_params)[k] # OutOfBounds)
    /\ [][(call'[1] = "decr_offset" /\ offset' # offset) =>
            (offset > 0 /\ offset' = offset - 1)]_vars

\* text() was called on the empty log and returned an empty text.
C10_Witness ==
    /\ call[1] = "text"
    /\ text = <<>>
    /\ offset = 0
    /\ ret = <<>>
    /\ ~panicked

\* C11: on a log without messages every incr_offset and decr_offset leaves
\* offset at 0 and the history empty.
C11_EmptyLogScroll ==
    /\ [](text = <<>> => offset = 0)
    /\ [][(text = <<>> /\ call'[1] \in {"incr_offset", "decr_offset"}) =>
            (offset' = 0 /\ text' = <<>>)]_vars

\* decr_offset was called on the log before any push and left offset at 0.
C11_Witness ==
    /\ call[1] = "decr_offset"
    /\ text = <<>>
    /\ pushed = <<>>
    /\ pre = 0
    /\ offset = 0

\* C12: text(), mesh() and set_box_position() leave messages and offset
\* unchanged in every reachable state.
C12_ReadsDoNotWrite ==
    [][call'[1] \in {"text", "mesh", "set_box_position"} =>
          (text' = text /\ offset' = offset)]_vars

\* text() was called on a log scrolled back from the newest message, and
\* the log is still scrolled back.
C12_Witness ==
    /\ call[1] = "text"
    /\ Len(text) > 5
    /\ pre < Len(text)
    /\ offset = pre
    /\ text = pushed

C14_NewOutcomes ==
    /\ built \in {"none", "ok", "err"}
    /\ (built = "none" <=> call[1] = "start")
    /\ (built # "ok" =>
          /\ text = NoLog /\ offset = NoLog
          /\ text_params = NoLog /\ mesh = NoLog)
    /\ (call[1] = "new" =>
          IF call[3]
          THEN /\ ret = "Ok" /\ built = "ok"
               /\ text = <<>> /\ offset = 0
          ELSE /\ ret = "Err" /\ built = "err")

\* Log::new ran with a failing outline and returned the error; there is no
\* Log.
C14_Witness ==
    /\ call[1] = "new"
    /\ call[3] = FALSE
    /\ ret = "Err"
    /\ built = "err"
    /\ text = NoLog

\* C15: with more than 5 messages, an incr_offset that changes offset moves
\* both bounds of the visible window [start, end) up by one (the oldest
\* visible message goes, the next newer one appears on top), and a
\* decr_offset that changes offset moves both down by one (the newest
\* visible message goes, the next older one appears at the bottom).
C15_WindowSlides ==
    [][(/\ Len(text) > 5
        /\ call'[1] \in {"incr_offset", "decr_offset"}
        /\ offset' # offset) =>
          LET n == Len(text)
              end == IF offset < n THEN offset ELSE n
              start == end - 5
              end2 == IF offset' < n THEN offset' ELSE n
              start2 == end2 - 5
              old == Lines(text_of(text, offset, text_params))
              new == Lines(text_of(text', offset', text_params'))
          IN /\ start >= 0 /\ start2 >= 0
             /\ Len(old) = 5 /\ Len(new) = 5
             /\ IF call'[1] = "incr_offset"
                THEN /\ end2 = end + 1
                     /\ start2 = start + 1
                     /\ new = <<text[end + 1]>> \o SubSeq(old, 1, 4)
                ELSE /\ end2 = end - 1
                     /\ start2 = start - 1
                     /\ new = SubSeq(old, 2, 5) \o <<text[start]>>]_vars

\* A decr_offset moved the window of a long history down by one: the
\* message now at the bottom is one that was not visible before.
C15_Witness ==
    /\ call[1] = "decr_offset"
    /\ Len(text) > 5
    /\ offset = pre - 1
    /\ text[pre] # text[offset - 4]
    /\ Lines(text_of(text, offset, text_params))
          = <<text[offset], text[offset - 1], text[offset - 2],
              text[offset - 3], text[offset - 4]>>

RECURSIVE DecrTimes(_, _, _)
DecrTimes(k, off, len) ==
    IF k = 0 THEN {off}
    ELSE UNION {IF r.panic THEN {"panic"} ELSE DecrTimes(k - 1, r.val, len) :
                   r \in decr_offset(off, len)}

\* The offset after k successive incr_offset calls from off.
RECURSIVE IncrTimes(_, _, _)
IncrTimes(k, off, len) ==
    IF k = 0 THEN off ELSE IncrTimes(k - 1, incr_offset(off, len), len)

\* C18: from every reachable state with more than 5 messages, every offset
\* t in [5, len] is reached by scrolling alone: offset - t decr_offset
\* calls when t is below, t - offset incr_offset calls when it is above; at
\* offset 5 text() shows messages 0..4, the oldest included.
C18_EveryPageReachable ==
    Len(text) > 5 =>
       /\ \A t \in 5..Len(text) :
             IF t <= offset
             THEN DecrTimes(offset - t, offset, Len(text)) = {t}
             ELSE IncrTimes(t - offset, offset, Len(text)) = t
       /\ DecrTimes(offset - 5, offset, Len(text)) = {5}
       /\ Lines(text_of(text, 5, text_params))
             = <<text[5], text[4], text[3], text[2], text[1]>>
       /\ IncrTimes(Len(text) - offset, offset, Len(text)) = Len(text)

\* Seven messages scrolled all the way back: text() returned the five
\* oldest, and scrolling forward twice leads back to the newest page.
C18_Witness ==
    /\ call[1] = "text"
    /\ Len(text) = 7
    /\ offset = 5
    /\ Lines(ret) = <<text[5], text[4], text[3], text[2], text[1]>>
    /\ IncrTimes(2, offset, Len(text)) = 7

\* C19: a decr_offset that changed offset is undone by an incr_offset made
\* next, and an incr_offset that changed offset is undone by a decr_offset
\* made next; the messages stay as they are.
C19_ScrollUndo ==
    /\ [](/\ \A r \in decr_offset(offset, Len(text)) :
                r.val # offset => incr_offset(r.val, Len(text)) = offset
          /\ (incr_offset(offset, Len(text)) # offset =>
                decr_offset(incr_offset(offset, Len(text)), Len(text))
                   = {[val |-> offset, panic |-> FALSE]}))
    /\ [][(/\ call[1] = "decr_offset" /\ offset # pre
           /\ call'[1] = "incr_offset") =>
             (offset' = pre /\ text' = text)]_vars
    /\ [][(/\ call[1] = "incr_offset" /\ offset # pre
           /\ call'[1] = "decr_offset") =>
             (offset' = pre /\ text' = text)]_vars

\* A decr_offset took effect, and an incr_offset made now would restore
\* the offset it started from.
C19_Witness ==
    /\ call[1] = "decr_offset"
    /\ offset = pre - 1
    /\ incr_offset(offset, Len(text)) = pre
    /\ text = pushed

\* C20: in the host, counter = len(messages) and message i (from 0) reads
\* "Pushed String No: i+1" after any sequence of key events: A appends that
\* message and adds 1 to the counter, W and S change nothing but the log
\* offset, and every other key changes neither messages nor counter.
C20_CounterNumbersMessages ==
    /\ [](/\ counter = Len(text)
          /\ \A i \in 1..Len(text) :
                text[i] = "Pushed String No: " \o ToString(i))
    /\ [][event'[1] = "key_down_event" =>
            /\ IF event'[2] = "A"
               THEN /\ text' = Append(text, "Pushed String No: "
                                              \o ToString(counter + 1))
                    /\ counter' = counter + 1
               ELSE text' = text /\ counter' = counter
            /\ (event'[2] \in {"W", "S"} =>
                  UNCHANGED <<text_params, mesh, palette, quit>>)
            /\ (event'[2] \notin {"W", "S", "A"} => offset' = offset)]_vars

\* The A key was pressed for the sixth time, on a log scrolled back to its
\* oldest page, after a frame had been drawn.
C20_Witness ==
    /\ event[1] = "key_down_event"
    /\ event[2] = "A"
    /\ counter = 6
    /\ text[6] = "Pushed String No: 6"
    /\ pre = 5
    /\ offset = 6
    /\ canvas # <<>>

====
